---- MODULE Spec2Model ----
(***************************************************************************)
(* crimson_forge/tailor.py: the alteration registry, the probabilistic     *)
(* scheduler alter(), the graph splice inject_instructions(), the operand  *)
(* helpers ins_mov_ptr_val / ins_mov_val_ptr and the three rules           *)
(* PushValue, PopValue and MoveConstant.                                    *)
(*                                                                         *)
(* Instruction text is kept as tokens: a mnemonic and two operands.  An    *)
(* operand is one of                                                       *)
(*    [k |-> "none"]                        no operand                     *)
(*    [k |-> "name", name |-> "eax"]        one word without blanks        *)
(*    [k |-> "hex",  digits |-> <<1, 0>>]   0x10 (lower case hex digits)   *)
(*    [k |-> "dec",  n |-> 8]               a decimal literal              *)
(*    [k |-> "mem",  size |-> "qword", base |-> "rsp"]   qword ptr [rsp]   *)
(* The graph is a networkx DiGraph: nodes in insertion order, a set of     *)
(* edges, add_edge inserting missing endpoints, remove_node dropping the   *)
(* incident edges.                                                         *)
(***************************************************************************)
EXTENDS Integers, Sequences, FiniteSets, TLC

\* ------------------------------------------------------------------ bounds
MaxIter == 2        \* alter(): iterations is drawn from 0..MaxIter
MaxNodes == 1       \* instructions after the entry of the graph given to alter()
MaxVal == 2         \* the constant of an initial `mov reg, 0x..`
MaxLen == 3         \* inject_instructions(): length of the replacement
MaxSplice == 3      \* inject_instructions() called directly: graph size

\* -------------------------------------------------------------- operands
None == [k |-> "none"]
Name(s) == [k |-> "name", name |-> s]
Hex(ds) == [k |-> "hex", digits |-> ds]
Dec(n) == [k |-> "dec", n |-> n]
Mem(size, base) == [k |-> "mem", size |-> size, base |-> base]
\* a Python int handed to an operand helper
IntVal(n) == [k |-> "int", n |-> n]

\* int(text, 16) on the digits after 0x
RECURSIVE HexParse(_)
HexParse(ds) ==
    IF ds = << >> THEN 0
    ELSE 16 * HexParse(SubSeq(ds, 1, Len(ds) - 1)) + ds[Len(ds)]

\* "{:x}".format(n): no leading zero, "0" for zero
RECURSIVE HexFormat(_)
HexFormat(n) ==
    IF n < 16 THEN << n >> ELSE Append(HexFormat(n \div 16), n % 16)

\* the text a (\S+) group captures at the start of an operand: the whole
\* operand unless it contains a blank (`qword ptr [eax]` gives `qword`)
FirstToken(op) ==
    IF op.k = "mem" THEN Name(op.size) ELSE op

\* is_numeric(): ^(0x[a-f0-9]+|[0-9]+)$
is_numeric(op) ==
    op.k \in {"hex", "dec"}

\* --------------------------------------------------------- architectures
\* archinfo descriptors: name and native width
ArchAMD64 == [name |-> "AMD64", bits |-> 64]
ArchX86 == [name |-> "X86", bits |-> 32]
ArchARMEL == [name |-> "ARMEL", bits |-> 32]
Archs == {ArchAMD64, ArchX86, ArchARMEL}

Reg(n, off, w) == [name |-> n, offset |-> off, width |-> w]
NoReg == [name |-> "", offset |-> 0, width |-> 0]

\* the register file of an architecture: names (and the alias sp) to a
\* canonical name, a bit offset and a width
RegTable(arch) ==
    IF arch.name = "AMD64" THEN
        [n \in {"rax", "eax", "ax", "rsp", "esp", "sp"} |->
            CASE n = "rax" -> Reg("rax", 128, 64)
              [] n = "eax" -> Reg("eax", 128, 32)
              [] n = "ax"  -> Reg("ax", 128, 16)
              [] n = "rsp" -> Reg("rsp", 384, 64)
              [] n = "esp" -> Reg("esp", 384, 32)
              [] n = "sp"  -> Reg("rsp", 384, 64)]
    ELSE IF arch.name = "X86" THEN
        [n \in {"eax", "ax", "esp", "sp"} |->
            CASE n = "eax" -> Reg("eax", 64, 32)
              [] n = "ax"  -> Reg("ax", 64, 16)
              [] n = "esp" -> Reg("esp", 192, 32)
              [] n = "sp"  -> Reg("esp", 192, 32)]
    ELSE
        [n \in {"r0", "sp"} |->
            CASE n = "r0" -> Reg("r0", 64, 32)
              [] n = "sp" -> Reg("sp", 480, 32)]

\* IRRegister.from_arch raises for a text that names no register
KnownReg(arch, op) ==
    op.k = "name" /\ op.name \in DOMAIN RegTable(arch)

from_arch(arch, op) ==
    IF KnownReg(arch, op) THEN RegTable(arch)[op.name] ELSE NoReg

\* stk_ptr & reg: the two registers share storage
Overlaps(r1, r2) ==
    /\ r1.offset < r2.offset + r2.width
    /\ r2.offset < r1.offset + r1.width

\* ------------------------------------------------------- operand helpers
SIZES == [w \in {8, 16, 32, 64} |->
            CASE w = 64 -> "qword" [] w = 32 -> "dword"
              [] w = 16 -> "word"  [] w = 8  -> "byte"]

\* the width argument: NoWidth is None
NoWidth == -1
\* `width or self.arch.bits`: None and 0 are both falsy
EffectiveWidth(arch, width) ==
    IF width = NoWidth \/ width = 0 THEN arch.bits ELSE width

Raise(what) == [err |-> what]
Ok(v) == [err |-> "", val |-> v]

\* isinstance(value, int): rendered 0x{:x}; a text is used as it is
RenderValue(value) ==
    IF value.k = "int" THEN Hex(HexFormat(value.n)) ELSE value

Ins(mn, a, b) == [mn |-> mn, a |-> a, b |-> b]

ins_mov_ptr_val(arch, register, value, width) ==
    IF register.width # arch.bits THEN Raise("ValueError: not native")
    ELSE IF EffectiveWidth(arch, width) \notin DOMAIN SIZES
         THEN Raise("ValueError: unknown size")
    ELSE Ok(Ins("mov", Mem(SIZES[EffectiveWidth(arch, width)], register.name),
                RenderValue(value)))

ins_mov_val_ptr(arch, register, value, width) ==
    IF register.width # arch.bits THEN Raise("ValueError: not native")
    ELSE IF EffectiveWidth(arch, width) \notin DOMAIN SIZES
         THEN Raise("ValueError: unknown size")
    ELSE Ok(Ins("mov", RenderValue(value),
                Mem(SIZES[EffectiveWidth(arch, width)], register.name)))

\* ------------------------------------------------------------ the graph
Range(s) == {s[i] : i \in 1..Len(s)}

EmptyGraph == [nodes |-> << >>, edges |-> {}]

add_node(g, n) ==
    IF n \in Range(g.nodes) THEN g ELSE [g EXCEPT !.nodes = Append(@, n)]

add_edge(g, u, v) ==
    [add_node(add_node(g, u), v) EXCEPT !.edges = @ \cup {<<u, v>>}]

remove_edge(g, u, v) ==
    [g EXCEPT !.edges = @ \ {<<u, v>>}]

remove_node(g, n) ==
    [nodes |-> SelectSeq(g.nodes, LAMBDA x : x # n),
     edges |-> {e \in g.edges : e[1] # n /\ e[2] # n}]

predecessors(g, n) == {e[1] : e \in {x \in g.edges : x[2] = n}}
successors(g, n) == {e[2] : e \in {x \in g.edges : x[1] = n}}

\* a loop that leaves after the first predecessor
RewireOnePredecessor(g, preds, orig, first) ==
    IF preds = {} THEN g
    ELSE LET p == CHOOSE x \in preds : \A y \in preds : x <= y
         IN add_edge(remove_edge(g, p, orig), p, first)

\* for predecessor in tuple(graph.predecessors(orig_ins)): ...
RECURSIVE RewirePredecessors(_, _, _, _)
RewirePredecessors(g, preds, orig, first) ==
    IF preds = {} THEN g
    ELSE LET p == CHOOSE x \in preds : \A y \in preds : x <= y
         IN RewirePredecessors(add_edge(remove_edge(g, p, orig), p, first),
                               preds \ {p}, orig, first)

\* for successor in tuple(graph.successors(orig_ins)): ...
RECURSIVE RewireSuccessors(_, _, _, _)
RewireSuccessors(g, succs, orig, last) ==
    IF succs = {} THEN g
    ELSE LET s == CHOOSE x \in succs : \A y \in succs : x <= y
         IN RewireSuccessors(add_edge(remove_edge(g, orig, s), last, s),
                             succs \ {s}, orig, last)

\* for ins in new_instructions: graph.add_node(ins)
RECURSIVE AddNodes(_, _)
AddNodes(g, new) ==
    IF new = << >> THEN g ELSE AddNodes(add_node(g, Head(new)), Tail(new))

\* for predecessor, successor in pairwise(new_instructions): add_edge
RECURSIVE AddChain(_, _)
AddChain(g, new) ==
    IF Len(new) < 2 THEN g
    ELSE AddChain(add_edge(g, new[1], new[2]), Tail(new))

\* inject_instructions() once the replacement nodes `new` are constructed.
\* The successors are read after the predecessor loop has run.
inject_instructions(g, orig, new) ==
    LET g1 == RewirePredecessors(g, predecessors(g, orig), orig, new[1])
        g2 == RewireSuccessors(g1, successors(g1, orig), orig, new[Len(new)])
        g3 == AddNodes(g2, new)
        g4 == AddChain(g3, new)
    IN remove_node(g4, orig)

\* -------------------------------------------------- instruction objects
\* Instruction.from_source(text, arch, address): the assembler rejects a
\* register moved to or from memory of another size
Encodable(arch, src) ==
    /\ (src.a.k = "mem" /\ src.b.k = "name" /\ KnownReg(arch, src.b))
          => SIZES[from_arch(arch, src.b).width] = src.a.size
    /\ (src.b.k = "mem" /\ src.a.k = "name" /\ KnownReg(arch, src.a))
          => SIZES[from_arch(arch, src.a).width] = src.b.size

\* an Instruction object: its text and its address tag.  Objects are told
\* apart by their id (their index in `ins`): from_source returns a new
\* object each time, equal to no node already in the graph.
Instruction(src, address) == [src |-> src, addr |-> address]

\* ------------------------------------------------------------ the rules
\* What a rule does with one node of its snapshot:
\*   [k |-> "continue"]                 no match, or the aliasing guard
\*   [k |-> "raise", what |-> ...]      the lookup or a helper raised
\*   [k |-> "inject", new |-> <<..>>]   the texts handed to inject_instructions
Continue == [k |-> "continue"]
Raised(what) == [k |-> "raise", what |-> what]
Inject(new) == [k |-> "inject", new |-> new]

StkPtr(arch) == from_arch(arch, Name("sp"))

\* re.match(r'^push (?P<value>\S+)', ins.source)
MatchPush(src) == src.mn = "push" /\ src.a.k # "none"
\* re.match(r'^pop (?P<value>\S+)', ins.source)
MatchPop(src) == src.mn = "pop" /\ src.a.k # "none"
\* re.match(r'^mov (?P<register>\S+), 0x(?P<value>[a-f0-9]+)', ins.source)
MatchMov(src) == src.mn = "mov" /\ src.a.k = "name" /\ src.b.k = "hex"

\* PushValue.run without the test of line 142
PushValueNoGuard(arch, src, m) ==
    LET value == FirstToken(src.a)
        store == ins_mov_ptr_val(arch, StkPtr(arch), value, NoWidth)
    IN  IF ~MatchPush(src) THEN Continue
        ELSE IF ~is_numeric(value) /\ ~KnownReg(arch, value)
             THEN Raised("KeyError")
        ELSE IF store.err # "" THEN Raised(store.err)
        ELSE Inject(<< Ins("sub", Name(StkPtr(arch).name),
                           Dec(StkPtr(arch).width \div 8)),
                       store.val >>)

PushValue(arch, src, m) ==
    LET value == FirstToken(src.a)
        store == ins_mov_ptr_val(arch, StkPtr(arch), value, NoWidth)
    IN  IF ~MatchPush(src) THEN Continue
        ELSE IF ~is_numeric(value) /\ ~KnownReg(arch, value)
             THEN Raised("KeyError")
        ELSE IF ~is_numeric(value)
                /\ Overlaps(StkPtr(arch), from_arch(arch, value))
             THEN Continue
        ELSE IF store.err # "" THEN Raised(store.err)
        ELSE Inject(<< Ins("sub", Name(StkPtr(arch).name),
                           Dec(StkPtr(arch).width \div 8)),
                       store.val >>)

PopValue(arch, src, m) ==
    LET value == FirstToken(src.a)
        load == ins_mov_val_ptr(arch, StkPtr(arch), value, NoWidth)
    IN  IF ~MatchPop(src) THEN Continue
        ELSE IF ~KnownReg(arch, value) THEN Raised("KeyError")
        ELSE IF Overlaps(StkPtr(arch), from_arch(arch, value)) THEN Continue
        ELSE IF load.err # "" THEN Raised(load.err)
        ELSE Inject(<< load.val,
                       Ins("add", Name(StkPtr(arch).name),
                           Dec(StkPtr(arch).width \div 8)) >>)

\* MoveConstant.run without `value -= modifier`
MoveConstantNoSub(arch, src, m) ==
    LET reg == from_arch(arch, src.a)
        value == HexParse(src.b.digits)
    IN  IF ~MatchMov(src) THEN Continue
        ELSE IF ~KnownReg(arch, src.a) THEN Raised("KeyError")
        ELSE IF Overlaps(StkPtr(arch), reg) THEN Continue
        ELSE Inject(<< Ins("mov", Name(reg.name), Hex(HexFormat(value))),
                       Ins("add", Name(reg.name), Hex(HexFormat(m))) >>)

\* m is the value random.randint(0, value) returned
MoveConstant(arch, src, m) ==
    LET reg == from_arch(arch, src.a)
        value == HexParse(src.b.digits)
    IN  IF ~MatchMov(src) THEN Continue
        ELSE IF ~KnownReg(arch, src.a) THEN Raised("KeyError")
        ELSE IF Overlaps(StkPtr(arch), reg) THEN Continue
        ELSE Inject(<< Ins("mov", Name(reg.name), Hex(HexFormat(value - m))),
                       Ins("add", Name(reg.name), Hex(HexFormat(m))) >>)

\* the values random.randint(0, value) can return for this node
RandInts(rule, src) ==
    IF rule = "move_constant" /\ MatchMov(src)
    THEN 0..HexParse(src.b.digits) ELSE {0}

RunRule(rule, arch, src, m) ==
    CASE rule = "push_value" -> PushValue(arch, src, m)
      [] rule = "pop_value" -> PopValue(arch, src, m)
      [] rule = "move_constant" -> MoveConstant(arch, src, m)

\* --------------------------------------------------------- the registry
\* register_alteration(): append the rule to the list of each architecture
\* the class names (a defaultdict(list): a missing name starts empty)
register_alteration(alts, rule, archs) ==
    [n \in DOMAIN alts \cup {a.name : a \in archs} |->
        IF n \in {a.name : a \in archs}
        THEN Append(IF n \in DOMAIN alts THEN alts[n] ELSE << >>, rule)
        ELSE alts[n]]

NoAlterations == [n \in {} |-> << >>]

\* the decorators run at import, in the order of the class definitions
Registry ==
    register_alteration(
        register_alteration(
            register_alteration(NoAlterations, "push_value",
                                {ArchAMD64, ArchX86}),
            "pop_value", {ArchAMD64, ArchX86}),
        "move_constant", {ArchAMD64, ArchX86})

\* `arch.name not in alterations`
Unsupported(alts, arch) == arch.name \notin DOMAIN alts

\* the registry after `not alterations[arch.name]`: the defaultdict makes
\* the entry it is asked for
AfterSubscript(alts, arch) ==
    [n \in DOMAIN alts \cup {arch.name} |->
        IF n \in DOMAIN alts THEN alts[n] ELSE << >>]

\* the registry after line 67: a membership test creates no entry
AfterSupportCheck(alts, arch) == alts

\* ================================================================ state
VARIABLES
    arch,           \* alter(): the architecture descriptor
    modifier,       \* alter(): the probability, in quarters (4 is 1.0)
    iterations,     \* alter(): the iterations still to run
    graph,          \* the instruction graph
    ins,            \* the Instruction objects constructed so far, by id
    alterations,    \* the module-level registry
    pc,             \* where the call is
    idx,            \* alter(): position in `for alteration in ...`
    todo,           \* run(): what is left of tuple(graph.nodes)
    snap,           \* run(): tuple(graph.nodes) as taken
    call,           \* the arguments of the call, as given
    trace,          \* how many logger.info records wrapper() wrote
    draws,          \* how often random.random() was called
    log,            \* the inject_instructions calls of the current run()
    err,            \* the exception that ended the call
    io              \* operand helper called directly: arguments and result

vars == <<arch, modifier, iterations, graph, ins, alterations, pc, idx, todo,
          snap, call, trace, draws, log, err, io>>

\* random.random() returns a float in [0, 1): in quarters, 0.0 and 0.75
Draws == {0, 3}
\* the modifiers tried, in quarters: 0.0 and 1.0
Modifiers == {0, 4}

\* the full-width accumulator and stack pointer, as the disassembly of the
\* architecture names them
Acc(a) == IF a.name = "AMD64" THEN "rax" ELSE "eax"
Sp(a) == IF a.name = "AMD64" THEN "rsp" ELSE "esp"

\* the instructions a graph handed to alter() is made of: pushes of an
\* immediate, of a full register, of a 16 bit register, of the stack
\* pointer and of a memory operand; pops; constant loads (esp is the stack
\* pointer of X86 and a sub-register of it on AMD64); anything else
Sources(a) ==
    IF a.name \in {"AMD64", "X86"} THEN
        {Ins("push", Hex(<<4, 1>>), None),
         Ins("push", Name(Acc(a)), None),
         Ins("push", Name("ax"), None),
         Ins("push", Name(Sp(a)), None),
         Ins("push", Mem(SIZES[a.bits], Acc(a)), None),
         Ins("pop", Name(Acc(a)), None),
         Ins("pop", Name(Sp(a)), None),
         Ins("mov", Name("eax"), Hex(HexFormat(MaxVal))),
         Ins("mov", Name("esp"), Hex(HexFormat(MaxVal))),
         Ins("nop", None, None)}
    ELSE
        {Ins("mov", Name("r0"), Hex(HexFormat(MaxVal))),
         Ins("nop", None, None)}

\* the first instruction of every graph handed to alter()
Entry(a) ==
    IF a.name \in {"AMD64", "X86"} THEN Ins("push", Hex(<<4, 1>>), None)
    ELSE Ins("nop", None, None)

\* the entry and up to MaxNodes more instructions
Programs(a) ==
    {<<Entry(a)>> \o p : p \in UNION {[1..n -> Sources(a)] : n \in 0..MaxNodes}}

\* a straight line of instructions, each at its own address, with or
\* without an edge from the last back to the first
ProgramGraph(prog, loop) ==
    [nodes |-> [i \in 1..Len(prog) |-> i],
     edges |-> {<<i, i + 1>> : i \in 1..(Len(prog) - 1)}
               \cup (IF loop THEN {<<Len(prog), 1>>} ELSE {})]

NoErr == [what |-> "", node |-> 0]
NoIo == [op |-> "none"]
NoCall == [graph |-> EmptyGraph, iterations |-> 0]

Init ==
    /\ arch \in Archs
    /\ modifier \in Modifiers
    /\ iterations \in 0..MaxIter
    /\ \E prog \in Programs(arch), loop \in BOOLEAN :
          /\ graph = ProgramGraph(prog, loop)
          /\ ins = [i \in 1..Len(prog) |-> Instruction(prog[i], i)]
    /\ alterations = Registry
    /\ pc = "alter"
    /\ idx = 1
    /\ todo = << >>
    /\ snap = << >>
    /\ call = [graph |-> graph, iterations |-> iterations]
    /\ trace = 0
    /\ draws = 0
    /\ log = << >>
    /\ err = NoErr
    /\ io = NoIo

\* ============================================================== alter()
\* lines 67-68: the architecture has no rules
AlterUnsupported ==
    /\ pc = "alter"
    /\ Unsupported(alterations, arch)
    /\ pc' = "raised"
    /\ err' = [what |-> "NotImplementedError", node |-> 0]
    /\ alterations' = AfterSupportCheck(alterations, arch)
    /\ UNCHANGED <<arch, modifier, iterations, graph, ins, idx, todo, snap,
                   call, trace, draws, log, io>>

AlterEnter ==
    /\ pc = "alter"
    /\ ~Unsupported(alterations, arch)
    /\ pc' = "loop"
    /\ idx' = 1
    /\ alterations' = AfterSupportCheck(alterations, arch)
    /\ UNCHANGED <<arch, modifier, iterations, graph, ins, todo, snap, call,
                   trace, draws, log, err, io>>

\* the comparison of line 71 turned around
SkipsBelow(draw, mod) == draw < mod

\* line 71: `if random.random() > modifier: continue`
Skips(draw, mod) == draw > mod

\* where the for loop goes after a rule: the next rule, or line 74
AfterRule ==
    IF idx < Len(alterations[arch.name])
    THEN /\ idx' = idx + 1
         /\ iterations' = iterations
    ELSE /\ idx' = 1
         /\ iterations' = iterations - 1

\* lines 69-72: a rule the draw skips
AlterSkip ==
    /\ pc = "loop"
    /\ iterations > 0
    /\ \E d \in Draws :
          /\ Skips(d, modifier)
          /\ draws' = draws + 1
    /\ AfterRule
    /\ UNCHANGED <<arch, modifier, graph, ins, alterations, pc, todo, snap,
                   call, trace, log, err, io>>

\* tuple(graph.nodes) at the start of run()
Snapshot(g) == g.nodes

\* a for loop over the live node list: the nodes added since are visited
RemainingLive(t, g) ==
    Tail(t) \o SelectSeq(g.nodes, LAMBDA n : n \notin Range(t))

\* what is left of the tuple after its head, g being the graph by now: the
\* tuple does not follow the graph
Remaining(t, g) == Tail(t)

\* the graph when Instruction.from_source raises, had the edges of the
\* predecessors been moved before the texts are assembled
GraphAtRaiseLate(g, orig) ==
    [g EXCEPT !.edges = {e \in @ : e[2] # orig}]

\* the graph when Instruction.from_source raises in lines 88-90: no edge
\* has been touched yet
GraphAtRaise(g, orig) == g

\* the for loop of run() passes the nodes it `continue`s on (no match, or
\* the aliasing guard): what is left of the tuple starts at the next node
\* the rule raises on or rewrites
RECURSIVE Advance(_, _, _, _)
Advance(rule, a, objs, nodes) ==
    IF nodes = << >> THEN nodes
    ELSE IF RunRule(rule, a, objs[Head(nodes)].src, 0).k = "continue"
         THEN Advance(rule, a, objs, Tail(nodes))
    ELSE nodes

\* lines 69-73 and 58-60: the wrapper logs, builds the rule and enters run(),
\* which takes tuple(graph.nodes)
AlterApply ==
    /\ pc = "loop"
    /\ iterations > 0
    /\ \E d \in Draws :
          /\ ~Skips(d, modifier)
          /\ draws' = draws + 1
    /\ trace' = trace + 1
    /\ pc' = "run"
    /\ todo' = Advance(alterations[arch.name][idx], arch, ins, Snapshot(graph))
    /\ snap' = Snapshot(graph)
    /\ log' = << >>
    /\ UNCHANGED <<arch, modifier, iterations, graph, ins, alterations, idx,
                   call, err, io>>

\* the node the for loop of run() stops at next
NextNode == Head(todo)

\* the ids of the Instruction objects a splice of n texts constructs
NewIds(n) == [i \in 1..n |-> Len(ins) + i]

Outcome(m) == RunRule(alterations[arch.name][idx], arch, ins[NextNode].src, m)

\* run(): the register lookup or the helper raises: alter() is left
RunRaise ==
    /\ pc = "run"
    /\ todo # << >>
    /\ Outcome(0).k = "raise"
    /\ pc' = "raised"
    /\ err' = [what |-> Outcome(0).what, node |-> NextNode]
    /\ UNCHANGED <<arch, modifier, iterations, graph, ins, alterations, idx,
                   todo, snap, call, trace, draws, log, io>>

\* inject_instructions(), lines 88-90: Instruction.from_source raises on a
\* text, before any edge is touched
InjectRaise ==
    /\ pc = "run"
    /\ todo # << >>
    /\ \E m \in RandInts(alterations[arch.name][idx], ins[NextNode].src) :
          /\ Outcome(m).k = "inject"
          /\ \E i \in 1..Len(Outcome(m).new) :
                ~Encodable(arch, Outcome(m).new[i])
    /\ pc' = "raised"
    /\ err' = [what |-> "from_source", node |-> NextNode]
    /\ graph' = GraphAtRaise(graph, NextNode)
    /\ UNCHANGED <<arch, modifier, iterations, ins, alterations, idx,
                   todo, snap, call, trace, draws, log, io>>

\* the graph and the objects after inject_instructions(graph, orig, texts)
Spliced(g, orig, n) == inject_instructions(g, orig, NewIds(n))

\* run(): a node that is rewritten, lines 88-101
RunInject ==
    /\ pc = "run"
    /\ todo # << >>
    /\ \E m \in RandInts(alterations[arch.name][idx], ins[NextNode].src) :
          LET out == Outcome(m) IN
          /\ out.k = "inject"
          /\ \A i \in 1..Len(out.new) : Encodable(arch, out.new[i])
          /\ ins' = ins \o [i \in 1..Len(out.new) |->
                              Instruction(out.new[i], ins[NextNode].addr)]
          /\ graph' = Spliced(graph, NextNode, Len(out.new))
          /\ log' = Append(log, [node |-> NextNode,
                                 new |-> NewIds(Len(out.new)),
                                 m |-> m])
    /\ todo' = Advance(alterations[arch.name][idx], arch, ins',
                       Remaining(todo, graph'))
    /\ UNCHANGED <<arch, modifier, iterations, alterations, pc, idx, snap,
                   call, trace, draws, err, io>>

\* run() returns: back in the for loop of alter()
RunReturn ==
    /\ pc = "run"
    /\ todo = << >>
    /\ pc' = "loop"
    /\ AfterRule
    /\ UNCHANGED <<arch, modifier, graph, ins, alterations, todo, snap, call,
                   trace, draws, log, err, io>>

\* line 75
AlterReturn ==
    /\ pc = "loop"
    /\ iterations <= 0
    /\ pc' = "returned"
    /\ UNCHANGED <<arch, modifier, iterations, graph, ins, alterations, idx,
                   todo, snap, call, trace, draws, log, err, io>>

Next ==
    \/ AlterUnsupported
    \/ AlterEnter
    \/ AlterSkip
    \/ AlterApply
    \/ RunRaise
    \/ InjectRaise
    \/ RunInject
    \/ RunReturn
    \/ AlterReturn

Spec == Init /\ [][Next]_vars

\* ===================================== inject_instructions() on its own
\* every directed graph on 1..n, self loops included
Graphs(n) ==
    {[nodes |-> [i \in 1..n |-> i], edges |-> es] :
        es \in SUBSET ((1..n) \X (1..n))}

Nop == Ins("nop", None, None)

InitInject ==
    /\ arch = ArchAMD64
    /\ modifier = 4
    /\ iterations = 0
    /\ \E n \in 1..MaxSplice :
          /\ graph \in Graphs(n)
          /\ ins = [i \in 1..n |-> Instruction(Nop, i)]
    /\ alterations = Registry
    /\ pc = "inject"
    /\ idx = 1
    /\ todo = << >>
    /\ snap = << >>
    /\ call = [graph |-> graph, iterations |-> 0]
    /\ trace = 0
    /\ draws = 0
    /\ log = << >>
    /\ err = NoErr
    /\ io = NoIo

\* inject_instructions(graph, orig_ins, new_instructions) with a
\* replacement of one to MaxLen texts
InjectCall ==
    /\ pc = "inject"
    /\ \E orig \in Range(graph.nodes), n \in 1..MaxLen :
          /\ ins' = ins \o [i \in 1..n |-> Instruction(Nop, ins[orig].addr)]
          /\ graph' = Spliced(graph, orig, n)
          /\ io' = [op |-> "inject", orig |-> orig, new |-> NewIds(n)]
    /\ pc' = "returned"
    /\ UNCHANGED <<arch, modifier, iterations, alterations, idx, todo, snap,
                   call, trace, draws, log, err>>

NextInject == InjectCall

InjectSpec == InitInject /\ [][NextInject]_vars

\* ========================================= the operand helpers on their own
\* the width arguments tried: None, 0, the four sizes and two others
Widths == {NoWidth, 0, 7, 8, 16, 32, 64, 128}
\* the value arguments tried: two ints and a register name
Values == {IntVal(0), IntVal(65), Name("eax")}

InitHelper ==
    /\ arch \in Archs
    /\ modifier = 4
    /\ iterations = 0
    /\ graph = EmptyGraph
    /\ ins = << >>
    /\ alterations = Registry
    /\ pc = "helper"
    /\ idx = 1
    /\ todo = << >>
    /\ snap = << >>
    /\ call = NoCall
    /\ trace = 0
    /\ draws = 0
    /\ log = << >>
    /\ err = NoErr
    /\ \E n \in DOMAIN RegTable(arch), v \in Values, w \in Widths :
          io = [op |-> "args", register |-> RegTable(arch)[n], value |-> v,
                width |-> w]

HelperReturn(op, res) ==
    /\ io' = [op |-> op, register |-> io.register, value |-> io.value,
              width |-> io.width, res |-> res]
    /\ pc' = "returned"
    /\ UNCHANGED <<arch, modifier, iterations, graph, ins, alterations, idx,
                   todo, snap, call, trace, draws, log, err>>

CallMovPtrVal ==
    /\ pc = "helper"
    /\ HelperReturn("ins_mov_ptr_val",
                    ins_mov_ptr_val(arch, io.register, io.value, io.width))

CallMovValPtr ==
    /\ pc = "helper"
    /\ HelperReturn("ins_mov_val_ptr",
                    ins_mov_val_ptr(arch, io.register, io.value, io.width))

NextHelper ==
    \/ CallMovPtrVal
    \/ CallMovValPtr

HelperSpec == InitHelper /\ [][NextHelper]_vars

\* ================================================================ claims
\* what the call of InjectSpec was given and what it built
Orig == io.orig
New == io.new
First == New[1]
Last == New[Len(New)]
Before == call.graph
Injected == pc = "returned" /\ io.op = "inject"
ChainEdges(new) == {<<new[i], new[i + 1]>> : i \in 1..(Len(new) - 1)}
SelfLoop == <<Orig, Orig>> \in Before.edges

\* C1 as stated: after inject_instructions every former predecessor of the
\* target has an edge to the first replacement node, every former successor
\* has an edge from the last one, the target is no node of the graph and no
\* edge names it.
C1_AsStated ==
    Injected =>
        /\ \A p \in predecessors(Before, Orig) : <<p, First>> \in graph.edges
        /\ \A s \in successors(Before, Orig) : <<Last, s>> \in graph.edges
        /\ Orig \notin Range(graph.nodes)
        /\ \A e \in graph.edges : e[1] # Orig /\ e[2] # Orig

\* C1 amended: the same for every former predecessor and successor other
\* than the target itself (which is gone); the target is no node of the
\* graph and no edge names it.
C1_SpliceConnectivity ==
    Injected =>
        /\ \A p \in predecessors(Before, Orig) \ {Orig} :
              <<p, First>> \in graph.edges
        /\ \A s \in successors(Before, Orig) \ {Orig} :
              <<Last, s>> \in graph.edges
        /\ Orig \notin Range(graph.nodes)
        /\ \A e \in graph.edges : e[1] # Orig /\ e[2] # Orig

\* C1 witness: a target with two predecessors besides itself, one of them
\* also its successor, replaced by a chain of two or more
C1_Witness ==
    /\ Injected
    /\ Len(New) >= 2
    /\ Cardinality(predecessors(Before, Orig) \ {Orig}) >= 2
    /\ \E x \in predecessors(Before, Orig) \ {Orig} :
          x \in successors(Before, Orig)
    /\ Orig \notin Range(graph.nodes)

\* the edges of the graph that join two replacement nodes
Internal == {e \in graph.edges : e[1] \in Range(New) /\ e[2] \in Range(New)}

\* C7: whatever edges the target had, an edge from the target to itself
\* included, the edges between replacement nodes are exactly the L-1 edges
\* from each element to the next: no back edge, no self loop, no fan-out.
C7_SimpleChain ==
    Injected => Internal = ChainEdges(New)

\* ------------------------------------------------------------ alter()
Supported == ~Unsupported(Registry, arch)
Ended == pc \in {"returned", "raised"}
InitialNodes == Range(call.graph.nodes)
Nodes == Range(graph.nodes)

\* C2: with modifier 0.0 alter applies no rule and leaves the nodes and the
\* edges of the graph as they were, whatever random.random() returns.
C2_ModifierZeroNoOp ==
    (Supported /\ modifier = 0) => (trace = 0 /\ graph = call.graph)

\* C4: for an architecture without rules alter raises before any draw and
\* any rule, for every modifier and every iterations value; the graph and
\* the registry stay as they were, and the registry gets no entry for the
\* name.
C4_UnsupportedArchitecture ==
    ~Supported =>
        /\ pc \in {"alter", "raised"}
        /\ pc = "raised" => err.what = "NotImplementedError"
        /\ draws = 0
        /\ trace = 0
        /\ graph = call.graph
        /\ alterations = Registry
        /\ arch.name \notin DOMAIN alterations

\* C4 witness: alter has raised for ARMEL, called with iterations = 0
C4_Witness ==
    /\ arch = ArchARMEL
    /\ pc = "raised"
    /\ err.what = "NotImplementedError"
    /\ call.iterations = 0

\* a push, pop or mov-immediate whose register shares storage with the
\* stack pointer
SpGuarded(a, src) ==
    \/ /\ MatchPush(src)
       /\ KnownReg(a, FirstToken(src.a))
       /\ Overlaps(StkPtr(a), from_arch(a, FirstToken(src.a)))
    \/ /\ MatchPop(src)
       /\ KnownReg(a, FirstToken(src.a))
       /\ Overlaps(StkPtr(a), from_arch(a, FirstToken(src.a)))
    \/ /\ MatchMov(src)
       /\ KnownReg(a, src.a)
       /\ Overlaps(StkPtr(a), from_arch(a, src.a))

Incident(g, n) == {e \in g.edges : e[1] = n \/ e[2] = n}

\* C5 as stated: a push, pop or mov-immediate on a register overlapping the
\* stack pointer stays in the graph with its edges unchanged.
C5_AsStated ==
    \A n \in InitialNodes :
        SpGuarded(arch, ins[n].src) =>
            /\ n \in Nodes
            /\ Incident(graph, n) = Incident(call.graph, n)

\* C5 amended: such a node is never spliced out: it stays in the graph,
\* keeps the number of its predecessors and of its successors, and keeps
\* its edges to and from every node that has not been rewritten (an edge to
\* or from a rewritten neighbour goes to that neighbour's replacement).
C5_StackPointerGuard ==
    \A n \in InitialNodes :
        SpGuarded(arch, ins[n].src) =>
            /\ n \in Nodes
            /\ Cardinality(predecessors(graph, n))
                  = Cardinality(predecessors(call.graph, n))
            /\ Cardinality(successors(graph, n))
                  = Cardinality(successors(call.graph, n))
            /\ \A x \in InitialNodes \cap Nodes :
                  /\ <<x, n>> \in graph.edges <=> <<x, n>> \in call.graph.edges
                  /\ <<n, x>> \in graph.edges <=> <<n, x>> \in call.graph.edges

\* C5 witness: alter has returned after two iterations, a guarded node on
\* a sub-register of the stack pointer is still there, and the neighbour
\* before it has been rewritten
C5_Witness ==
    /\ pc = "returned"
    /\ call.iterations = 2
    /\ arch = ArchAMD64
    /\ \E n \in InitialNodes :
          /\ SpGuarded(arch, ins[n].src)
          /\ from_arch(arch, FirstToken(ins[n].src.a)) # StkPtr(arch)
          /\ n \in Nodes
          /\ Incident(graph, n) # Incident(call.graph, n)

\* ------------------------------------------------------ the rules' runs
\* the rule whose run() is on
Rule == alterations[arch.name][idx]
Rules == Range(Registry[arch.name])

Matches(rule, src) ==
    CASE rule = "push_value" -> MatchPush(src)
      [] rule = "pop_value" -> MatchPop(src)
      [] rule = "move_constant" -> MatchMov(src)

\* the node matches the rule's pattern and passes its aliasing guard
Eligible(rule, src) ==
    /\ Matches(rule, src)
    /\ IF rule = "push_value" /\ is_numeric(FirstToken(src.a)) THEN TRUE
       ELSE /\ KnownReg(arch, FirstToken(src.a))
            /\ ~Overlaps(StkPtr(arch), from_arch(arch, FirstToken(src.a)))

\* the nodes of the snapshot the for loop of run() has dealt with
Visited == Range(snap) \ Range(todo)
Rewrites(n) == {i \in 1..Len(log) : log[i].node = n}
LogNodes == {log[i].node : i \in 1..Len(log)}
LogNew == UNION {Range(log[i].new) : i \in 1..Len(log)}

\* at every point of a run(): each eligible node the loop has dealt with
\* is rewritten exactly once and gone, each other node of the snapshot is
\* not rewritten and still there
RunRewritesOnce ==
    \A n \in Range(snap) :
        IF n \in Visited /\ Eligible(Rule, ins[n].src)
        THEN Cardinality(Rewrites(n)) = 1 /\ n \notin Nodes
        ELSE Rewrites(n) = {} /\ n \in Nodes

OneRulePerNode ==
    \A i \in 1..Len(ins) :
        Cardinality({r \in Rules : Matches(r, ins[i].src)}) <= 1

RuleOrder ==
    idx' # idx =>
        \/ idx' = idx + 1 /\ iterations' = iterations
        \/ idx = Len(alterations[arch.name]) /\ idx' = 1
              /\ iterations' = iterations - 1

Rank(p) == CASE p = "alter" -> 3 [] p = "loop" -> 2 [] p = "run" -> 1
             [] OTHER -> 0

\* every step brings the call nearer its end: fewer iterations, or a later
\* rule, or from the loop into run(), or a shorter tuple
Decreases ==
    \/ Rank(pc') = 0 /\ Rank(pc) > 0
    \/ Rank(pc) = 3 /\ Rank(pc') < 3
    \/ /\ Rank(pc) \in {1, 2} /\ Rank(pc') \in {1, 2}
       /\ \/ iterations' < iterations
          \/ iterations' = iterations /\ idx' > idx
          \/ iterations' = iterations /\ idx' = idx /\ Rank(pc') < Rank(pc)
          \/ /\ iterations' = iterations /\ idx' = idx /\ pc' = pc
             /\ Len(todo') < Len(todo)

SnapshotVisibility ==
    /\ Supported =>
          alterations[arch.name] = <<"push_value", "pop_value", "move_constant">>
    /\ pc = "run" =>
          /\ Range(todo) \subseteq Range(snap)
          /\ LogNodes \subseteq Range(snap)
          /\ LogNew \cap Range(snap) = {}
          /\ LogNew \cap Range(todo) = {}
          /\ Range(snap) = (Nodes \ LogNew) \cup LogNodes

\* C8: the rules run in registration order in every iteration; a run()
\* scans the nodes that were in the graph when it started, all of them
\* (those injected by earlier runs included) and no node it injects
\* itself; every step shortens what is left of the call, so run() and
\* alter() terminate.
C8_SnapshotOrdering ==
    /\ []SnapshotVisibility
    /\ [][RuleOrder /\ Decreases]_vars

\* C8 witness: in the second iteration move_constant rewrites a mov that
\* move_constant injected in the first
C8_Witness ==
    /\ pc = "run"
    /\ Rule = "move_constant"
    /\ iterations = call.iterations - 1
    /\ \E i \in 1..Len(log) :
          /\ log[i].node \notin InitialNodes
          /\ MatchMov(ins[log[i].node].src)

NoDanglingEdge ==
    \A e \in graph.edges : e[1] \in Nodes /\ e[2] \in Nodes

AfterRaise ==
    (Supported /\ pc = "raised") =>
        /\ err.node \in Nodes
        /\ \A i \in 1..Len(log) :
              /\ log[i].node \notin Nodes
              /\ Range(log[i].new) \subseteq Nodes

RaiseStep ==
    /\ pc # "raised"
    /\ pc' = "raised" =>
          /\ graph' = graph
          /\ ins' = ins
          /\ log' = log
          /\ trace' = trace
          /\ draws' = draws

\* C9: a rule that raises ends the call at once: no step follows, the
\* graph is as it was before the failing node was looked at (the splices
\* made before remain, the failing node keeps all its edges, nothing is
\* half spliced) and no edge dangles.
C9_NoRollback ==
    /\ [](NoDanglingEdge /\ AfterRaise)
    /\ [][RaiseStep]_vars

\* C9 witness: a run() has rewritten a node and then raised on a later one
\* that has a predecessor
C9_Witness ==
    /\ Supported
    /\ pc = "raised"
    /\ log # << >>
    /\ err.node \in Nodes
    /\ predecessors(graph, err.node) # {}
    /\ graph # call.graph

\* --------------------------------------------------------------- values
Imm(n) == HexParse(ins[n].src.b.digits)

RECURSIVE SumImm(_)
SumImm(S) ==
    IF S = {} THEN 0
    ELSE LET n == CHOOSE x \in S : TRUE IN Imm(n) + SumImm(S \ {n})

\* the nodes of the graph that carry the address tag of node i
Group(i) == {n \in Nodes : ins[n].addr = ins[i].addr}

\* the nodes reached from S along edges inside G, in at most k steps
RECURSIVE Reach(_, _, _)
Reach(S, G, k) ==
    IF k = 0 THEN S
    ELSE Reach(S \cup {n \in G : \E x \in S : <<x, n>> \in graph.edges},
               G, k - 1)

\* one inject_instructions call of move_constant, as logged
SplitStep(e) ==
    LET o == ins[e.node]
        v == HexParse(o.src.b.digits)
    IN  /\ Len(e.new) = 2
        /\ e.m \in 0..v
        /\ ins[e.new[1]] = [src |-> Ins("mov", o.src.a, Hex(HexFormat(v - e.m))),
                            addr |-> o.addr]
        /\ ins[e.new[2]] = [src |-> Ins("add", o.src.a, Hex(HexFormat(e.m))),
                            addr |-> o.addr]
        /\ Imm(e.new[1]) = v - e.m
        /\ Imm(e.new[1]) \in 0..v
        /\ Imm(e.new[2]) = e.m

\* what has become of the initial node i, a mov the rule rewrites
SplitChain(i) ==
    LET G == Group(i)
        movs == {n \in G : ins[n].src.mn = "mov"}
        mov == CHOOSE n \in movs : TRUE
        inG(n) == {x \in G : <<x, n>> \in graph.edges}
    IN  /\ Cardinality(movs) = 1
        /\ \A n \in G \ movs : ins[n].src.mn = "add"
        /\ \A n \in G : ins[n].src.a = ins[i].src.a /\ ins[n].src.b.k = "hex"
        /\ SumImm(G) = Imm(i)
        /\ inG(mov) = {}
        /\ \A n \in G \ movs : Cardinality(inG(n)) = 1
        /\ Reach({mov}, G, Cardinality(G)) = G

\* C10: move_constant replaces `mov reg, 0x<value>` by `mov reg, value-m`
\* and `add reg, m` with 0 <= m <= value, both at the address of the
\* original; at any time the nodes that stand for an original mov are one
\* mov followed by adds on the same register, and their immediates sum to
\* the original constant.
C10_ConstantSplit ==
    /\ \A i \in 1..Len(log) :
          MatchMov(ins[log[i].node].src) => SplitStep(log[i])
    /\ \A i \in InitialNodes :
          Eligible("move_constant", ins[i].src) => SplitChain(i)

\* C10 witness: after two iterations an original mov has become a mov and
\* two adds that each add something
C10_Witness ==
    /\ pc = "returned"
    /\ \E i \in InitialNodes :
          /\ Eligible("move_constant", ins[i].src)
          /\ Cardinality(Group(i)) = 3
          /\ Cardinality({n \in Group(i) :
                             ins[n].src.mn = "add" /\ Imm(n) > 0}) = 2

\* -------------------------------------------------------------- helpers
\* C6: ins_mov_ptr_val and ins_mov_val_ptr raise when the register is not
\* of the native width and when an explicit width is none of 8, 16, 32 and
\* 64 (0 included), and return a text in every other case.
C6_WidthValidation ==
    (pc = "returned" /\ io.op \in {"ins_mov_ptr_val", "ins_mov_val_ptr"}) =>
        (io.res.err # "" <=>
            \/ io.register.width # arch.bits
            \/ io.width # NoWidth /\ io.width \notin {8, 16, 32, 64})

====
